---- MODULE Spec2Model ----
(***************************************************************************)
(* A model of the Gmail tool server of src/main.py: message listing with   *)
(* pagination, the label transitions sent through modify_message and       *)
(* batch_modify_messages, message composition with attachments, sending    *)
(* and drafting, the processing of unread messages, counting, and address  *)
(* parsing.  The remote mail store (the transport collaborator) is the     *)
(* environment.                                                            *)
(***************************************************************************)
EXTENDS Integers, Sequences, FiniteSets, TLC

VARIABLES lst, labels, last, prev, cmp, fs, prc, cnt, adr, qry, bdy

vars == <<lst, labels, last, prev, cmp, fs, prc, cnt, adr, qry, bdy>>

(***************************************************************************)
(* Bounds of the model.                                                    *)
(***************************************************************************)
\* largest max_results asked of list_messages
MaxK == 3
\* largest number of items the server puts in one page
MaxPage == 2
\* longest cursor chain (number of pages) the server serves for a query
MaxPages == 3
\* most label ids in one add_labels or remove_labels list
MaxDelta == 2
\* longest file_paths list given to create_message_with_attachment
MaxPaths == 2

Min(a, b) == IF a <= b THEN a ELSE b

(***************************************************************************)
(* Pagination: list_messages and the tools that delegate to it.            *)
(***************************************************************************)

\* the tools that end in list_messages(user_id, query, max_results)
ListTools == {"list_messages", "search_messages", "get_unread_messages",
              "find_messages_by_date_range", "get_recent_messages_from_sender"}

\* the delegating tools that wrap the call in try/except and return []
GuardedListTools == {"get_unread_messages", "find_messages_by_date_range",
                     "get_recent_messages_from_sender"}

\* a cursor chain: the sizes of the pages the server serves, in order
RECURSIVE ChainsOfLen(_)
ChainsOfLen(n) ==
  IF n = 0 THEN {<<>>}
  ELSE {Append(c, s) : c \in ChainsOfLen(n - 1), s \in 0..MaxPage}

Chains == UNION {ChainsOfLen(n) : n \in 1..MaxPages}

RECURSIVE SumTo(_, _)
SumTo(chain, i) == IF i = 0 THEN 0 ELSE SumTo(chain, i - 1) + chain[i]

\* the number of items over the whole cursor chain
TotalAvailable(chain) == SumTo(chain, Len(chain))

\* response.get('messages', []) of page i: items are named by their position
\* in the server's order
PageItems(chain, i) == [j \in 1..chain[i] |-> SumTo(chain, i - 1) + j]

\* the concatenation of all pages in server-provided order
AllItems(chain) == [j \in 1..TotalAvailable(chain) |-> j]

\* messages.extend(response.get('messages', []))
ExtendLifo(messages, page) == page \o messages
Extend(messages, page) == messages \o page

\* service.users().messages().list_next(request, response): the request for
\* the next page, or None (0) when the response carries no nextPageToken
ListNextAgain(chain, request) ==
  IF request < Len(chain) THEN request + 1 ELSE request
ListNext(chain, request) == IF request < Len(chain) THEN request + 1 ELSE 0

\* if len(messages) >= max_results: break
ShouldBreakStrict(messages, max_results) == Len(messages) > max_results
ShouldBreak(messages, max_results) == Len(messages) >= max_results

\* return messages[:max_results]
TruncateNone(messages, max_results) == messages
Truncate(messages, max_results) ==
  SubSeq(messages, 1, Min(Len(messages), max_results))

IdleList ==
  [pc |-> "idle", tool |-> "none", max_results |-> 1, chain |-> <<0>>,
   request |-> 0, messages |-> <<>>, executed |-> 0, past |-> 0,
   outcome |-> "none", result |-> <<>>]

\* a tool is called; get_gmail_api_service() runs before the try block
ListCall ==
  /\ lst.pc = "idle"
  /\ \E tool \in ListTools, k \in 1..MaxK, chain \in Chains, svc \in BOOLEAN :
       lst' = IF svc
              THEN [IdleList EXCEPT !.pc = "loop", !.tool = tool,
                      !.max_results = k, !.chain = chain, !.request = 1]
              ELSE [IdleList EXCEPT !.pc = "done", !.tool = tool,
                      !.max_results = k, !.chain = chain,
                      !.outcome = IF tool \in GuardedListTools
                                  THEN "failed" ELSE "raised"]
  /\ UNCHANGED <<labels, last, prev, cmp, fs, prc, cnt, adr, qry, bdy>>

\* one iteration of the while loop whose request.execute() succeeds
ListPage ==
  /\ lst.pc = "loop"
  /\ lst.request # 0
  /\ LET msgs == Extend(lst.messages, PageItems(lst.chain, lst.request))
         nxt == ListNext(lst.chain, lst.request)
         out == ShouldBreak(msgs, lst.max_results) \/ nxt = 0
     IN lst' = [lst EXCEPT
                  !.messages = msgs,
                  !.request = nxt,
                  !.executed = @ + 1,
                  !.past = @ + (IF Len(lst.messages) >= lst.max_results
                                THEN 1 ELSE 0),
                  !.pc = IF out THEN "done" ELSE "loop",
                  !.outcome = IF out THEN "returned" ELSE "none",
                  !.result = IF out THEN Truncate(msgs, lst.max_results)
                             ELSE <<>>]
  /\ UNCHANGED <<labels, last, prev, cmp, fs, prc, cnt, adr, qry, bdy>>

\* variant: the except clause returns what was accumulated
ListPageFailPartial ==
  /\ lst.pc = "loop"
  /\ lst.request # 0
  /\ lst' = [lst EXCEPT !.pc = "done", !.outcome = "failed",
                        !.result = Truncate(lst.messages, lst.max_results),
                        !.executed = @ + 1,
                        !.past = @ + (IF Len(lst.messages) >= lst.max_results
                                      THEN 1 ELSE 0)]
  /\ UNCHANGED <<labels, last, prev, cmp, fs, prc, cnt, adr, qry, bdy>>

\* request.execute() raises: the except clause returns []
ListPageFail ==
  /\ lst.pc = "loop"
  /\ lst.request # 0
  /\ lst' = [lst EXCEPT !.pc = "done", !.outcome = "failed", !.result = <<>>,
                        !.executed = @ + 1,
                        !.past = @ + (IF Len(lst.messages) >= lst.max_results
                                      THEN 1 ELSE 0)]
  /\ UNCHANGED <<labels, last, prev, cmp, fs, prc, cnt, adr, qry, bdy>>

\* the call has returned; the next call starts afresh
ListDone ==
  /\ lst.pc = "done"
  /\ lst' = IdleList
  /\ UNCHANGED <<labels, last, prev, cmp, fs, prc, cnt, adr, qry, bdy>>

(***************************************************************************)
(* Claims about pagination.                                                *)
(***************************************************************************)

\* C1: whenever list_messages (or a tool delegating to it) has returned a
\* list, for any page sizes and any cursor chain, the list has at most
\* max_results items.
C1_AtMostK ==
  (lst.pc = "done" /\ lst.outcome \in {"returned", "failed"})
    => Len(lst.result) <= lst.max_results

\* the server delivered more items than asked for and the call returned
C1_Witness ==
  /\ lst.pc = "done"
  /\ lst.outcome = "returned"
  /\ Len(lst.messages) > lst.max_results
  /\ Len(lst.result) = lst.max_results

\* C2: when no transport call failed, the returned list is exactly the first
\* min(max_results, totalAvailable) items of the concatenation of the
\* server's pages, in server order.
C2_ExactPrefix ==
  (lst.pc = "done" /\ lst.outcome = "returned")
    => /\ Len(lst.result) = Min(lst.max_results, TotalAvailable(lst.chain))
       /\ lst.result = SubSeq(AllItems(lst.chain), 1,
                              Min(lst.max_results, TotalAvailable(lst.chain)))

\* a return over several pages that had to be truncated, and one that ran
\* out of pages before the bound, are both C2's cases; this is the first
C2_Witness ==
  /\ lst.pc = "done"
  /\ lst.outcome = "returned"
  /\ lst.executed >= 2
  /\ TotalAvailable(lst.chain) > lst.max_results
  /\ Len(lst.messages) > Len(lst.result)
  /\ Len(lst.result) >= 2

\* C3: in any run of list_messages, at most one page request is executed
\* after the number of accumulated items has reached max_results.
C3_AtMostOneExtraPage == lst.past <= 1

\* the bound was reached while the server still offered a next page, and the
\* call returned without requesting it
C3_Witness ==
  /\ lst.pc = "done"
  /\ lst.outcome = "returned"
  /\ Len(lst.messages) >= lst.max_results
  /\ lst.request # 0
  /\ lst.executed < Len(lst.chain)

(***************************************************************************)
(* Label state: modify_message, the named transitions built on it, and     *)
(* batch_modify_messages.  labels is the mail store's label set of each    *)
(* message; last is the frame of the tool call that ran last and prev the  *)
(* frame of the call before it when the caller followed one call by        *)
(* another on the same message.                                            *)
(***************************************************************************)

LABEL_UNREAD == "UNREAD"
LABEL_INBOX == "INBOX"
LABEL_STARRED == "STARRED"

\* the label ids in play and the messages of the mailbox
Labels == {LABEL_UNREAD, LABEL_INBOX, LABEL_STARRED}
Msgs == {"m1", "m2"}

\* an optional list argument: None, or a list of label ids
None == <<>>
Some(x) == <<x>>
LabelLists == {s \in SUBSET Labels : Cardinality(s) <= MaxDelta}
OptLists == {None} \cup {Some(s) : s \in LabelLists}

\* `x or []`
OrEmpty(x) == IF x = None THEN {} ELSE x[1]

\* modify_message: body = {'addLabelIds': add_labels or [],
\*                         'removeLabelIds': remove_labels or []}
ModifyBodySwapped(add_labels, remove_labels) ==
  [addLabelIds |-> OrEmpty(remove_labels),
   removeLabelIds |-> OrEmpty(add_labels)]
ModifyBodyCopied(add_labels, remove_labels) ==
  [addLabelIds |-> OrEmpty(add_labels),
   removeLabelIds |-> OrEmpty(add_labels)]
ModifyBody(add_labels, remove_labels) ==
  [addLabelIds |-> OrEmpty(add_labels),
   removeLabelIds |-> OrEmpty(remove_labels)]

\* the request modify_message hands to messages().modify(id=msg_id, body=body)
ModifyRequest(msg_id, add_labels, remove_labels) ==
  [api |-> "modify", ids |-> {msg_id},
   body |-> ModifyBody(add_labels, remove_labels)]

\* batch_modify_messages: body = {'ids': msg_ids, 'addLabelIds': ...,
\*                                'removeLabelIds': ...}
BatchRequestAddOnly(msg_ids, add_labels, remove_labels) ==
  [api |-> "batchModify", ids |-> msg_ids,
   body |-> [addLabelIds |-> OrEmpty(add_labels), removeLabelIds |-> {}]]
BatchRequest(msg_ids, add_labels, remove_labels) ==
  [api |-> "batchModify", ids |-> msg_ids,
   body |-> [addLabelIds |-> OrEmpty(add_labels),
             removeLabelIds |-> OrEmpty(remove_labels)]]

\* the keyword arguments each named transition passes to modify_message
MarkAsReadArgsBoth == [add_labels |-> None,
                       remove_labels |-> Some({LABEL_UNREAD, LABEL_STARRED})]
MarkAsReadArgs == [add_labels |-> None, remove_labels |-> Some({LABEL_UNREAD})]

MarkAsUnreadArgsStar == [add_labels |-> Some({LABEL_STARRED}),
                         remove_labels |-> None]
MarkAsUnreadArgs == [add_labels |-> Some({LABEL_UNREAD}), remove_labels |-> None]

StarArgs == [add_labels |-> Some({LABEL_STARRED}), remove_labels |-> None]
UnstarArgs == [add_labels |-> None, remove_labels |-> Some({LABEL_STARRED})]

\* move_message_to_label: add_labels = [label_id];
\* remove_labels = [LABEL_INBOX] if remove_from_inbox else []
MoveArgs(label_id, remove_from_inbox) ==
  [add_labels |-> Some({label_id}),
   remove_labels |-> IF remove_from_inbox THEN Some({LABEL_INBOX})
                     ELSE Some({})]

\* the mail store's transition rule for one message (spec 4.5):
\* result = (currentLabels \cup toAdd) \ toRemove
ApplyDelta(current, body) ==
  (current \cup body.addLabelIds) \ body.removeLabelIds

\* the mail store applies a request to every id it lists, in one operation
ServerModify(lbls, req) ==
  [m \in Msgs |-> IF m \in req.ids THEN ApplyDelta(lbls[m], req.body)
                  ELSE lbls[m]]

NoLabels == [m \in Msgs |-> {}]

NoCall ==
  [tool |-> "none", ids |-> {}, add_labels |-> None, remove_labels |-> None,
   label_id |-> "", remove_from_inbox |-> FALSE, sent |-> <<>>,
   outcome |-> "none", before |-> NoLabels]

\* One tool call from argument to return value.  svc: get_gmail_api_service()
\* succeeds; net: the transport executes the request.  guarded: the call sits
\* inside the tool's own try block, so a failure to build the service is
\* caught.  outcome "ok" is the success value, "failed" the failure value
\* (None or False), "raised" an exception that reaches the caller.
Invoke(tool, ids, args, label_id, flag, req, guarded, svc, net, keep) ==
  /\ last' = [tool |-> tool, ids |-> ids,
              add_labels |-> args.add_labels,
              remove_labels |-> args.remove_labels,
              label_id |-> label_id, remove_from_inbox |-> flag,
              sent |-> IF svc THEN <<req>> ELSE <<>>,
              outcome |-> IF svc /\ net THEN "ok"
                          ELSE IF svc \/ guarded THEN "failed" ELSE "raised",
              before |-> labels]
  /\ labels' = IF svc /\ net THEN ServerModify(labels, req) ELSE labels
  /\ prev' = IF keep THEN last ELSE NoCall
  /\ UNCHANGED <<lst, cmp, fs, prc, cnt, adr, qry, bdy>>

\* a call may start when no frame is live, or follow a call that returned
\* its success value (the follow-up keeps that call's frame in prev)
Fresh == last = NoCall
FollowsOn(m) == last.outcome = "ok" /\ prev = NoCall /\ last.ids = {m}

ModifyMessage ==
  /\ Fresh
  /\ \E m \in Msgs, a \in OptLists, r \in OptLists, svc \in BOOLEAN,
        net \in BOOLEAN :
       Invoke("modify_message", {m}, [add_labels |-> a, remove_labels |-> r],
              "", FALSE, ModifyRequest(m, a, r), FALSE, svc, net, FALSE)

MarkAsRead ==
  \E m \in Msgs, svc \in BOOLEAN, net \in BOOLEAN :
    /\ Fresh \/ FollowsOn(m)
    /\ Invoke("mark_as_read", {m}, MarkAsReadArgs, "", FALSE,
              ModifyRequest(m, MarkAsReadArgs.add_labels,
                            MarkAsReadArgs.remove_labels),
              FALSE, svc, net, ~Fresh)

MarkAsUnread ==
  \E m \in Msgs, svc \in BOOLEAN, net \in BOOLEAN :
    /\ Fresh \/ FollowsOn(m)
    /\ Invoke("mark_as_unread", {m}, MarkAsUnreadArgs, "", FALSE,
              ModifyRequest(m, MarkAsUnreadArgs.add_labels,
                            MarkAsUnreadArgs.remove_labels),
              FALSE, svc, net, ~Fresh)

StarMessage ==
  \E m \in Msgs, svc \in BOOLEAN, net \in BOOLEAN :
    /\ Fresh \/ FollowsOn(m)
    /\ Invoke("star_message", {m}, StarArgs, "", FALSE,
              ModifyRequest(m, StarArgs.add_labels,
                            StarArgs.remove_labels),
              FALSE, svc, net, ~Fresh)

UnstarMessage ==
  \E m \in Msgs, svc \in BOOLEAN, net \in BOOLEAN :
    /\ Fresh \/ FollowsOn(m)
    /\ Invoke("unstar_message", {m}, UnstarArgs, "", FALSE,
              ModifyRequest(m, UnstarArgs.add_labels,
                            UnstarArgs.remove_labels),
              FALSE, svc, net, ~Fresh)

MoveMessageToLabel ==
  /\ Fresh
  /\ \E m \in Msgs, label_id \in Labels, flag \in BOOLEAN, svc \in BOOLEAN,
        net \in BOOLEAN :
       Invoke("move_message_to_label", {m}, MoveArgs(label_id, flag),
              label_id, flag,
              ModifyRequest(m, MoveArgs(label_id, flag).add_labels,
                            MoveArgs(label_id, flag).remove_labels),
              TRUE, svc, net, FALSE)

BatchModifyMessages ==
  /\ Fresh
  /\ \E ids \in SUBSET Msgs, a \in OptLists, r \in OptLists, svc \in BOOLEAN,
        net \in BOOLEAN :
       Invoke("batch_modify_messages", ids,
              [add_labels |-> a, remove_labels |-> r], "", FALSE,
              BatchRequest(ids, a, r), FALSE, svc, net, FALSE)

\* the caller issues the call that just succeeded once more, same arguments
RepeatCall ==
  /\ last.outcome = "ok"
  /\ prev = NoCall
  /\ last.tool \in {"modify_message", "batch_modify_messages"}
  /\ \E svc \in BOOLEAN, net \in BOOLEAN :
       Invoke(last.tool, last.ids,
              [add_labels |-> last.add_labels,
               remove_labels |-> last.remove_labels], "", FALSE,
              IF last.tool = "modify_message"
              THEN ModifyRequest(CHOOSE m \in last.ids : TRUE,
                                 last.add_labels, last.remove_labels)
              ELSE BatchRequest(last.ids, last.add_labels, last.remove_labels),
              FALSE, svc, net, TRUE)

\* the caller is done with the result; the frames are dropped
LabelReturn ==
  /\ last # NoCall
  /\ last' = NoCall
  /\ prev' = NoCall
  /\ UNCHANGED <<lst, labels, cmp, fs, prc, cnt, adr, qry, bdy>>

(***************************************************************************)
(* Claims about label transitions.                                         *)
(***************************************************************************)

\* the delta a modify_message or batch_modify_messages call was given
GivenAdd == OrEmpty(last.add_labels)
GivenRemove == OrEmpty(last.remove_labels)

\* C4: after a successful modify_message with add_labels A and
\* remove_labels R on a message with label set S, the message's label set is
\* (S \cup A) \ R; a label in both A and R is absent.
C4_ModifyResult ==
  (last.tool = "modify_message" /\ last.outcome = "ok")
    => \A m \in last.ids :
         /\ labels[m] = (last.before[m] \cup GivenAdd) \ GivenRemove
         /\ \A l \in GivenAdd \cap GivenRemove : l \notin labels[m]

\* a successful call whose add and remove lists share a label the message
\* did not carry before
C4_Witness ==
  /\ last.tool = "modify_message"
  /\ last.outcome = "ok"
  /\ \E m \in last.ids :
       \E l \in GivenAdd \cap GivenRemove : l \notin last.before[m]

\* C5: label transitions are idempotent.  A successful modify_message whose
\* add and remove lists are disjoint, issued again with the same arguments,
\* leaves the label set the first call left; and a successful call that adds
\* only labels the message has and removes only labels it lacks changes
\* nothing.
C5_Idempotent ==
  (last.tool = "modify_message" /\ last.outcome = "ok"
     /\ GivenAdd \cap GivenRemove = {})
    => \A m \in last.ids :
         /\ (prev.tool = "modify_message" /\ prev.outcome = "ok"
               /\ prev.ids = last.ids
               /\ prev.add_labels = last.add_labels
               /\ prev.remove_labels = last.remove_labels)
              => labels[m] = last.before[m]
         /\ (GivenAdd \subseteq last.before[m]
               /\ GivenRemove \cap last.before[m] = {})
              => labels[m] = last.before[m]

\* the same non-empty delta went through modify_message twice, both calls
\* returned their success value, and the first one had changed the labels
C5_Witness ==
  /\ last.tool = "modify_message" /\ last.outcome = "ok"
  /\ prev.tool = "modify_message" /\ prev.outcome = "ok"
  /\ prev.ids = last.ids
  /\ prev.add_labels = last.add_labels
  /\ prev.remove_labels = last.remove_labels
  /\ GivenAdd # {} /\ GivenRemove # {}
  /\ GivenAdd \cap GivenRemove = {}
  /\ \E m \in last.ids : prev.before[m] # last.before[m]

\* C6: no request that reaches the transport has a label id in both its
\* addLabelIds and its removeLabelIds.
C6_NoOverlapSent ==
  \A i \in 1..Len(last.sent) :
    last.sent[i].body.addLabelIds \cap last.sent[i].body.removeLabelIds = {}

\* C7 as stated: for every initial label set, a successful mark_as_read
\* followed by a successful mark_as_unread on the same message restores the
\* original membership of UNREAD.
C7_RestoresUnread ==
  (prev.tool = "mark_as_read" /\ prev.outcome = "ok"
     /\ last.tool = "mark_as_unread" /\ last.outcome = "ok"
     /\ last.ids = prev.ids)
    => \A m \in last.ids :
         (LABEL_UNREAD \in labels[m]) = (LABEL_UNREAD \in prev.before[m])

\* C7 amended: for every initial label set that contains UNREAD, a
\* successful mark_as_read followed by a successful mark_as_unread on the
\* same message restores the original membership of UNREAD.
C7_RestoresUnreadWhenUnread ==
  (prev.tool = "mark_as_read" /\ prev.outcome = "ok"
     /\ last.tool = "mark_as_unread" /\ last.outcome = "ok"
     /\ last.ids = prev.ids)
    => \A m \in last.ids :
         LABEL_UNREAD \in prev.before[m]
           => (LABEL_UNREAD \in labels[m]) = (LABEL_UNREAD \in prev.before[m])

\* an unread message was marked read and then unread, both successfully
C7_Witness ==
  /\ prev.tool = "mark_as_read" /\ prev.outcome = "ok"
  /\ last.tool = "mark_as_unread" /\ last.outcome = "ok"
  /\ last.ids = prev.ids
  /\ \E m \in last.ids :
       /\ LABEL_UNREAD \in prev.before[m]
       /\ LABEL_UNREAD \notin last.before[m]
       /\ LABEL_UNREAD \in labels[m]

\* the delta each named transition is to send for message m
ExpectedAdd ==
  CASE last.tool = "mark_as_unread" -> {LABEL_UNREAD}
    [] last.tool = "star_message" -> {LABEL_STARRED}
    [] last.tool = "move_message_to_label" -> {last.label_id}
    [] OTHER -> {}

ExpectedRemove ==
  CASE last.tool = "mark_as_read" -> {LABEL_UNREAD}
    [] last.tool = "unstar_message" -> {LABEL_STARRED}
    [] last.tool = "move_message_to_label" ->
         IF last.remove_from_inbox THEN {LABEL_INBOX} ELSE {}
    [] OTHER -> {}

TransitionTools == {"mark_as_read", "mark_as_unread", "star_message",
                    "unstar_message", "move_message_to_label"}

\* C8: each named transition sends one delta through modify_message, naming
\* only its own label (mark_as_read removes UNREAD, mark_as_unread adds
\* UNREAD, star_message adds STARRED, unstar_message removes STARRED,
\* move_message_to_label adds label_id and removes INBOX exactly when
\* remove_from_inbox); every other label of the message and every other
\* message keep their membership.
C8_NamedTransitionFrame ==
  last.tool \in TransitionTools
    => /\ Len(last.sent) <= 1
       /\ last.outcome = "ok" => Len(last.sent) = 1
       /\ \A i \in 1..Len(last.sent) :
            /\ last.sent[i].api = "modify"
            /\ last.sent[i].ids = last.ids
            /\ last.sent[i].body.addLabelIds = ExpectedAdd
            /\ last.sent[i].body.removeLabelIds = ExpectedRemove
       /\ \A m \in Msgs :
            IF m \in last.ids
            THEN \A l \in Labels \ (ExpectedAdd \cup ExpectedRemove) :
                   (l \in labels[m]) = (l \in last.before[m])
            ELSE labels[m] = last.before[m]

\* a move with remove_from_inbox on a message that carried INBOX, a third
\* label and not the target label: the target came, INBOX went, the third
\* label stayed
C8_Witness ==
  /\ last.tool = "move_message_to_label"
  /\ last.outcome = "ok"
  /\ last.remove_from_inbox
  /\ last.label_id = LABEL_STARRED
  /\ \E m \in last.ids :
       /\ last.before[m] = {LABEL_INBOX, LABEL_UNREAD}
       /\ labels[m] = {LABEL_STARRED, LABEL_UNREAD}
  /\ \E m \in Msgs \ last.ids : labels[m] # {}

\* C9: batch_modify_messages sends one request carrying every listed id and
\* the delta; when it returns True every listed message has label set
\* (S \cup add) \ remove, and when it returns False (or fails) no listed
\* message's label set has changed.  Unlisted messages never change.
C9_BatchAllOrNothing ==
  last.tool = "batch_modify_messages"
    => /\ Len(last.sent) <= 1
       /\ last.outcome = "ok" => Len(last.sent) = 1
       /\ \A i \in 1..Len(last.sent) :
            /\ last.sent[i].api = "batchModify"
            /\ last.sent[i].ids = last.ids
       /\ last.outcome = "ok" =>
            \A m \in last.ids :
              labels[m] = (last.before[m] \cup GivenAdd) \ GivenRemove
       /\ last.outcome # "ok" => \A m \in last.ids : labels[m] = last.before[m]
       /\ \A m \in Msgs \ last.ids : labels[m] = last.before[m]

\* a batch over two messages with different label sets returned True and
\* changed both by adding one label and removing another
C9_Witness ==
  /\ last.tool = "batch_modify_messages"
  /\ last.outcome = "ok"
  /\ Cardinality(last.ids) >= 2
  /\ GivenAdd # {} /\ GivenRemove # {}
  /\ \A m \in last.ids : labels[m] # last.before[m]
  /\ \E m, n \in last.ids : last.before[m] # last.before[n]

\* a batch that returned False after its request reached the transport
C9_WitnessFailed ==
  /\ last.tool = "batch_modify_messages"
  /\ last.outcome = "failed"
  /\ Len(last.sent) = 1

(***************************************************************************)
(* Message composition: create_message_with_attachment.  A path is the     *)
(* sequence of its components; fs is the state of the file system.         *)
(***************************************************************************)

Paths == {<<"docs", "a.pdf">>, <<"b">>}
FileStates == {"missing", "readable", "unreadable"}

\* a text value is a sequence of characters; LF stands for a line feed
Texts == {<<>>, <<"a", "@", "b">>, <<"a", "LF", "b">>}
OptTexts == {None} \cup {Some(t) : t \in Texts}

RECURSIVE SeqsUpTo(_, _)
SeqsUpTo(S, n) ==
  IF n = 0 THEN {<<>>}
  ELSE SeqsUpTo(S, n - 1)
         \cup {Append(q, x) : q \in {r \in SeqsUpTo(S, n - 1) : Len(r) = n - 1},
                              x \in S}

\* file_paths: Union[str, List[str]], or None when the caller passes none
FilePathArgs ==
  {[kind |-> "none", path |-> <<>>, paths |-> <<>>]}
    \cup {[kind |-> "str", path |-> p, paths |-> <<>>] : p \in Paths}
    \cup {[kind |-> "list", path |-> <<>>, paths |-> q] :
            q \in SeqsUpTo(Paths, MaxPaths)}

\* if isinstance(file_paths, str): file_paths = [file_paths]
NormalizePaths(file_paths) ==
  IF file_paths.kind = "str" THEN <<file_paths.path>> ELSE file_paths.paths

\* os.path.basename(file_path)
Basename(path) == path[Len(path)]

\* mimetypes.guess_type(file_path)[0], None for an unknown extension
GuessType(path) ==
  IF Basename(path) = "a.pdf" THEN Some(<<"application", "pdf">>) ELSE None

\* if type_subtype is None: type_subtype = 'application/octet-stream';
\* main_type, sub_type = type_subtype.split("/", 1)
TypeOf(path) ==
  IF GuessType(path) = None THEN <<"application", "octet-stream">>
  ELSE GuessType(path)[1]

\* fp.read(): the bytes of a readable file
FileData(path) == IF Basename(path) = "a.pdf" THEN <<37, 80>> ELSE <<0, 255>>

\* if not os.path.exists(file_path): print(...); continue
SkipMissingNever(files, path) == FALSE
SkipMissing(files, path) == files[path] = "missing"

\* the attachment loop: the parts added, or a raised exception (ok = FALSE)
\* as soon as open() or read() fails
RECURSIVE AttachAll(_, _, _)
AttachAll(files, paths, parts) ==
  IF paths = <<>> THEN [ok |-> TRUE, parts |-> parts]
  ELSE LET path == Head(paths) IN
       IF SkipMissing(files, path)
       THEN AttachAll(files, Tail(paths), parts)
       ELSE IF files[path] = "readable"
       THEN AttachAll(files, Tail(paths),
                      Append(parts, [filename |-> Basename(path),
                                     maintype |-> TypeOf(path)[1],
                                     subtype |-> TypeOf(path)[2],
                                     data |-> FileData(path)]))
       ELSE [ok |-> FALSE, parts |-> parts]

\* message.set_content(body_) raises for a body that is not text
BodyRaises(body_) == body_ = None

\* message[name] = value raises for a value with a line feed
HeaderRaises(value) ==
  value # None /\ \E i \in 1..Len(value[1]) : value[1][i] = "LF"

\* for file_path in file_paths raises when file_paths is None
PathsRaise(file_paths) == file_paths.kind = "none"

\* the text of every body the tools are called with: with and without a
\* final line end, with a carriage return, and with a character whose code
\* needs the URL-safe alphabet
Bodies == {<<>>, <<"a", ">">>, <<">", "a", "LF">>, <<"a", "CR", "LF", "b">>}
OptBodies == {None} \cup {Some(t) : t \in Bodies}

\* the code point of each character the texts are made of
CharCode(c) ==
  CASE c = "LF" -> 10
    [] c = "CR" -> 13
    [] c = ">" -> 62
    [] c = "@" -> 64
    [] c = "N" -> 78
    [] c = "a" -> 97
    [] c = "b" -> 98
    [] c = "e" -> 101
    [] c = "n" -> 110
    [] c = "o" -> 111

\* the bytes of a text, as message.as_bytes() writes them
Utf8(text) == [i \in 1..Len(text) |-> CharCode(text[i])]

\* the bytes of a filename or content-type word in a part's headers
TokenBytes(t) ==
  CASE t = "a.pdf" -> <<97, 46, 112>>
    [] t = "b" -> <<98>>
    [] t = "application" -> <<65>>
    [] t = "pdf" -> <<112>>
    [] t = "octet-stream" -> <<111>>

\* every line end of the text (CR, LF or CR LF) as one line feed
RECURSIVE UnixLines(_)
UnixLines(text) ==
  IF text = <<>> THEN <<>>
  ELSE IF Head(text) = "CR"
  THEN <<"LF">> \o UnixLines(IF Len(text) > 1 /\ text[2] = "LF"
                              THEN Tail(Tail(text)) ELSE Tail(text))
  ELSE <<Head(text)>> \o UnixLines(Tail(text))

\* message.set_content(body_): the lines of the text, each ended by one
\* line feed
NormalBody(text) ==
  LET u == UnixLines(text)
  IN IF u # <<>> /\ u[Len(u)] = "LF" THEN u ELSE Append(u, "LF")

\* message["To"] = to_ and message["From"] = from_: an address header
\* holds the text given, and the text "None" for None
StoredAddress(value) ==
  IF value = None THEN <<"N", "o", "n", "e">> ELSE value[1]

\* message["Subject"] = subject_: empty for None
StoredSubject(value) == IF value = None THEN <<>> ELSE value[1]

\* the character code of the i-th digit of a base-64 alphabet: the
\* URL-safe one ends in '-' and '_', the standard one in '+' and '/'
B64Char(i, urlsafe) ==
  IF i < 26 THEN 65 + i
  ELSE IF i < 52 THEN 71 + i
  ELSE IF i < 62 THEN i - 4
  ELSE IF i = 62 THEN (IF urlsafe THEN 45 ELSE 43)
  ELSE (IF urlsafe THEN 95 ELSE 47)

\* base-64 of a byte string: four digits for every three bytes, padded
\* with '=' to a whole group
RECURSIVE B64Encode(_, _)
B64Encode(bytes, urlsafe) ==
  IF bytes = <<>> THEN <<>>
  ELSE IF Len(bytes) = 1
  THEN LET n == bytes[1] * 16
       IN <<B64Char(n \div 64, urlsafe), B64Char(n % 64, urlsafe), 61, 61>>
  ELSE IF Len(bytes) = 2
  THEN LET n == bytes[1] * 1024 + bytes[2] * 4
       IN <<B64Char(n \div 4096, urlsafe), B64Char((n \div 64) % 64, urlsafe),
            B64Char(n % 64, urlsafe), 61>>
  ELSE LET n == bytes[1] * 65536 + bytes[2] * 256 + bytes[3]
       IN <<B64Char(n \div 262144, urlsafe),
            B64Char((n \div 4096) % 64, urlsafe),
            B64Char((n \div 64) % 64, urlsafe),
            B64Char(n % 64, urlsafe)>>
            \o B64Encode(SubSeq(bytes, 4, Len(bytes)), urlsafe)

\* message.add_attachment(data, ...): bytes travel in the base64 content
\* transfer encoding
TransferEncode(data) == B64Encode(data, FALSE)

\* one attachment part: a boundary, the part's filename and type, then its
\* encoded payload
PartBytes(part) ==
  <<0>> \o TokenBytes(part.filename) \o <<10>>
        \o TokenBytes(part.maintype) \o <<10>>
        \o TokenBytes(part.subtype) \o <<10>>
        \o TransferEncode(part.data)

RECURSIVE PartsBytes(_)
PartsBytes(parts) ==
  IF parts = <<>> THEN <<>>
  ELSE PartBytes(Head(parts)) \o PartsBytes(Tail(parts))

\* one header line: the field's initial, its value, a line feed
HeaderLine(name, value) == <<name>> \o Utf8(value) \o <<10>>

\* message.as_bytes(): the header lines, an empty line, the body, the parts
AsBytes(message) ==
  HeaderLine(84, message.to) \o HeaderLine(70, message.from)
    \o HeaderLine(83, message.subject) \o <<10>>
    \o Utf8(message.body) \o PartsBytes(message.parts)

\* base64.urlsafe_b64encode(message.as_bytes()).decode()
UrlsafeB64EncodeStandard(bytes) == B64Encode(bytes, FALSE)
UrlsafeB64Encode(bytes) == B64Encode(bytes, TRUE)

\* the EmailMessage built from the arguments and the attachment parts
Message(to_, from_, subject_, body_, parts) ==
  [to |-> StoredAddress(to_), from |-> StoredAddress(from_),
   subject |-> StoredSubject(subject_), body |-> NormalBody(body_[1]),
   parts |-> parts]

\* return {"raw": encoded_message}; the message it encodes is kept beside
\* the raw text
Encoded(message) ==
  [to |-> message.to, from |-> message.from, subject |-> message.subject,
   body |-> message.body, parts |-> message.parts,
   raw |-> UrlsafeB64Encode(AsBytes(message))]

\* create_message, the whole try block: Some(message) for {"raw": ...},
\* None for the except clause's return None
CreateMessage(to_, from_, subject_, body_) ==
  IF BodyRaises(body_) \/ HeaderRaises(to_) \/ HeaderRaises(from_)
       \/ HeaderRaises(subject_)
  THEN None
  ELSE Some(Encoded(Message(to_, from_, subject_, body_, <<>>)))

\* the whole try block: Some(message) for {"raw": ...}, None for the
\* except clause's return None
CreateMessageWithAttachment(files, to_, from_, subject_, body_, file_paths) ==
  IF BodyRaises(body_) \/ HeaderRaises(to_) \/ HeaderRaises(from_)
       \/ HeaderRaises(subject_) \/ PathsRaise(file_paths)
  THEN None
  ELSE LET att == AttachAll(files, NormalizePaths(file_paths), <<>>) IN
       IF att.ok
       THEN Some(Encoded(Message(to_, from_, subject_, body_, att.parts)))
       ELSE None

NoPaths == [kind |-> "none", path |-> <<>>, paths |-> <<>>]

\* pc: idle, or done when a tool has acted; result: what create_message or
\* create_message_with_attachment returned; built: construction was
\* attempted; sent: the requests handed to the transport; response and
\* outcome: what a send or draft tool gave its caller
IdleCompose ==
  [pc |-> "idle", tool |-> "none", to_ |-> None, from_ |-> None,
   subject_ |-> None, body_ |-> None, file_paths |-> NoPaths,
   result |-> None, built |-> FALSE, sent |-> <<>>, response |-> None,
   outcome |-> "returned"]

ComposeMessage ==
  /\ cmp.pc = "idle"
  /\ \E to_ \in OptTexts, from_ \in OptTexts, subject_ \in OptTexts,
        body_ \in OptBodies :
       cmp' = [IdleCompose EXCEPT
                 !.pc = "done", !.tool = "create_message",
                 !.to_ = to_, !.from_ = from_, !.subject_ = subject_,
                 !.body_ = body_, !.built = TRUE,
                 !.result = CreateMessage(to_, from_, subject_, body_)]
  /\ UNCHANGED <<lst, labels, last, prev, fs, prc, cnt, adr, qry, bdy>>

ComposeWithAttachment ==
  /\ cmp.pc = "idle"
  /\ \E to_ \in OptTexts, from_ \in OptTexts, subject_ \in OptTexts,
        body_ \in OptBodies, file_paths \in FilePathArgs :
       cmp' = [IdleCompose EXCEPT
                 !.pc = "done", !.tool = "create_message_with_attachment",
                 !.to_ = to_, !.from_ = from_, !.subject_ = subject_,
                 !.body_ = body_, !.file_paths = file_paths, !.built = TRUE,
                 !.result = CreateMessageWithAttachment(fs, to_, from_,
                                                        subject_, body_,
                                                        file_paths)]
  /\ UNCHANGED <<lst, labels, last, prev, fs, prc, cnt, adr, qry, bdy>>

\* if message_json: a request is made only for a message that was built
ShouldTransmitAlways(message_json) == TRUE
ShouldTransmit(message_json) == message_json # None

\* the body handed to the transport: the message for messages.send,
\* {"message": message_json} for drafts.create
Request(api, message_json) ==
  [api |-> api, raw |-> IF message_json = None THEN <<>>
                        ELSE message_json[1].raw,
   message |-> message_json]

\* a send or draft tool after create_message... has returned message_json:
\* svc, the service could be obtained (before the try block); net, the
\* request succeeded.  Without a service the call raises before anything
\* is built; a failed request is caught and None returned; with no message
\* the function ends without a request and returns None.
Transmit(frame, api, message_json, svc, net) ==
  IF ~svc THEN [frame EXCEPT !.pc = "done", !.outcome = "raised"]
  ELSE IF ShouldTransmit(message_json)
  THEN [frame EXCEPT !.pc = "done", !.built = TRUE, !.result = message_json,
                     !.sent = <<Request(api, message_json)>>,
                     !.response = IF net THEN Some(api) ELSE None]
  ELSE [frame EXCEPT !.pc = "done", !.built = TRUE, !.result = message_json]

SendMessage ==
  /\ cmp.pc = "idle"
  /\ \E to_ \in OptTexts, from_ \in OptTexts, subject_ \in OptTexts,
        body_ \in OptBodies, svc \in BOOLEAN, net \in BOOLEAN :
       cmp' = Transmit([IdleCompose EXCEPT
                          !.tool = "send_message", !.to_ = to_,
                          !.from_ = from_, !.subject_ = subject_,
                          !.body_ = body_],
                       "messages.send",
                       CreateMessage(to_, from_, subject_, body_), svc, net)
  /\ UNCHANGED <<lst, labels, last, prev, fs, prc, cnt, adr, qry, bdy>>

SendMessageWithAttachment ==
  /\ cmp.pc = "idle"
  /\ \E to_ \in OptTexts, from_ \in OptTexts, subject_ \in OptTexts,
        body_ \in OptBodies, file_paths \in FilePathArgs,
        svc \in BOOLEAN, net \in BOOLEAN :
       cmp' = Transmit([IdleCompose EXCEPT
                          !.tool = "send_message_with_attachment",
                          !.to_ = to_, !.from_ = from_,
                          !.subject_ = subject_, !.body_ = body_,
                          !.file_paths = file_paths],
                       "messages.send",
                       CreateMessageWithAttachment(fs, to_, from_, subject_,
                                                   body_, file_paths),
                       svc, net)
  /\ UNCHANGED <<lst, labels, last, prev, fs, prc, cnt, adr, qry, bdy>>

CreateDraft ==
  /\ cmp.pc = "idle"
  /\ \E to_ \in OptTexts, from_ \in OptTexts, subject_ \in OptTexts,
        body_ \in OptBodies, svc \in BOOLEAN, net \in BOOLEAN :
       cmp' = Transmit([IdleCompose EXCEPT
                          !.tool = "create_draft", !.to_ = to_,
                          !.from_ = from_, !.subject_ = subject_,
                          !.body_ = body_],
                       "drafts.create",
                       CreateMessage(to_, from_, subject_, body_), svc, net)
  /\ UNCHANGED <<lst, labels, last, prev, fs, prc, cnt, adr, qry, bdy>>

CreateDraftWithAttachment ==
  /\ cmp.pc = "idle"
  /\ \E to_ \in OptTexts, from_ \in OptTexts, subject_ \in OptTexts,
        body_ \in OptBodies, file_paths \in FilePathArgs,
        svc \in BOOLEAN, net \in BOOLEAN :
       cmp' = Transmit([IdleCompose EXCEPT
                          !.tool = "create_draft_with_attachment",
                          !.to_ = to_, !.from_ = from_,
                          !.subject_ = subject_, !.body_ = body_,
                          !.file_paths = file_paths],
                       "drafts.create",
                       CreateMessageWithAttachment(fs, to_, from_, subject_,
                                                   body_, file_paths),
                       svc, net)
  /\ UNCHANGED <<lst, labels, last, prev, fs, prc, cnt, adr, qry, bdy>>

\* the caller has the result; the next composition starts afresh
ComposeReturn ==
  /\ cmp.pc = "done"
  /\ cmp' = IdleCompose
  /\ UNCHANGED <<lst, labels, last, prev, fs, prc, cnt, adr, qry, bdy>>

\* a file appears, disappears or changes its permissions between calls
FileChange ==
  /\ cmp.pc = "idle"
  /\ \E p \in Paths, st \in FileStates :
       /\ fs[p] # st
       /\ fs' = [fs EXCEPT ![p] = st]
  /\ UNCHANGED <<lst, labels, last, prev, cmp, prc, cnt, adr, qry, bdy>>

(***************************************************************************)
(* Processing the unread messages: process_unread_messages, over           *)
(* get_unread_messages, get_message and mark_as_read.                      *)
(***************************************************************************)

\* get_unread_messages(user_id, max_results: int = 100, label_ids = None)
DefaultMaxResults == 100

\* largest small backlog of unread messages the mailbox starts with
MaxBacklog == 3
\* most calls of process_unread_messages in one run
MaxCalls == 2
\* last position of the listing at which a step of the loop may fail
MaxFaultAt == 2

\* the message ids of the mailbox, in the order the mail store lists them
Ids == 1..(DefaultMaxResults + 1)
IdSeq == [i \in Ids |-> i]

\* the backlogs the mailbox starts with: small ones, and the sizes at the
\* default page limit
Backlogs == (0..MaxBacklog) \cup {DefaultMaxResults, DefaultMaxResults + 1}

\* label_ids: none, an empty list, or the inbox
ProcessFilters == {None, Some({}), Some({LABEL_INBOX})}

\* query = "is:unread", and " label:<id>" for every label when label_ids
\* is given and not empty
UnreadQuery(label_ids) == {LABEL_UNREAD} \cup OrEmpty(label_ids)

\* the mail store's search: a message matches when it carries every label
\* of the query
Matches(box, query, i) == query \subseteq box[i]
Matching(box, query) == {i \in Ids : Matches(box, query, i)}

\* list_messages(user_id, query, max_results): the matching messages in the
\* mail store's order, at most max_results of them
ListMatching(box, query, max_results) ==
  Truncate(SelectSeq(IdSeq, LAMBDA i : Matches(box, query, i)), max_results)

\* get_unread_messages: list_messages under the default max_results; the
\* except clause gives [] when listing raises
GetUnreadMessages(box, label_ids, listed) ==
  IF listed THEN ListMatching(box, UnreadQuery(label_ids), DefaultMaxResults)
  ELSE <<>>

\* what may go wrong at one step of the loop: get_message returns None
\* (request failed) or raises (no service); processor_func raises;
\* mark_as_read returns False (request failed) or raises (no service)
FaultKinds == {"get_none", "get_raise", "proc_raise", "mark_fail", "mark_raise"}
NoFault == [kind |-> "none", at |-> 0]
Faults ==
  {NoFault} \cup {[kind |-> k, at |-> i] : k \in FaultKinds, i \in 1..MaxFaultAt}

\* the elements of a sequence
Range(q) == {q[i] : i \in 1..Len(q)}

\* the labels of a message once mark_as_read(user_id, msg['id']) has reached
\* the mail store
MarkedRead(box, id) ==
  ApplyDelta(box[id], ModifyBody(MarkAsReadArgs.add_labels,
                                 MarkAsReadArgs.remove_labels))

\* what goes wrong at position i of the listing
KindAt(fault, i) == IF fault.at = i THEN fault.kind ELSE "none"

\* the step at position i leaves the loop for the except clause: get_message
\* raises, processor_func raises, or (if mark_processed:) mark_as_read raises
Raises(fault, mark_processed, i) ==
  \/ KindAt(fault, i) \in {"get_raise", "proc_raise"}
  \/ mark_processed /\ KindAt(fault, i) = "mark_raise"

\* the loop comes to position i: no earlier step raised
Reached(fault, mark_processed, i) ==
  ~(fault.at < i /\ Raises(fault, mark_processed, fault.at))

\* if full_message: processor_func(full_message)
Invoked(fault, mark_processed, i) ==
  /\ Reached(fault, mark_processed, i)
  /\ KindAt(fault, i) \notin {"get_none", "get_raise"}

\* processor_func returned
Completed(fault, mark_processed, i) ==
  Invoked(fault, mark_processed, i) /\ KindAt(fault, i) # "proc_raise"

\* variant: the message is marked as soon as the loop comes to it
MarkedOnArrival(fault, mark_processed, i) ==
  /\ Reached(fault, mark_processed, i)
  /\ mark_processed
  /\ KindAt(fault, i) \notin {"mark_fail", "mark_raise"}

\* if mark_processed: mark_as_read(user_id, msg['id']) took effect
Marked(fault, mark_processed, i) ==
  /\ Completed(fault, mark_processed, i)
  /\ mark_processed
  /\ KindAt(fault, i) \notin {"mark_fail", "mark_raise"}

\* count += 1
Counted(fault, mark_processed, i) ==
  Completed(fault, mark_processed, i) /\ ~Raises(fault, mark_processed, i)

\* the for loop over unread_messages: the mailbox it leaves, the ids
\* processor_func was invoked on, the number of invocations that completed,
\* count, and whether an exception left the loop
ProcessLoop(box, unread_messages, mark_processed, fault) ==
  LET positions == [i \in 1..Len(unread_messages) |-> i]
      at(q) == [k \in 1..Len(q) |-> unread_messages[q[k]]]
      marked == Range(at(SelectSeq(positions,
                        LAMBDA i : Marked(fault, mark_processed, i))))
  IN [box |-> [id \in Ids |-> IF id \in marked THEN MarkedRead(box, id)
                              ELSE box[id]],
      invoked |-> at(SelectSeq(positions,
                       LAMBDA i : Invoked(fault, mark_processed, i))),
      completed |-> Len(SelectSeq(positions,
                          LAMBDA i : Completed(fault, mark_processed, i))),
      count |-> Len(SelectSeq(positions,
                      LAMBDA i : Counted(fault, mark_processed, i))),
      raised |-> \E i \in 1..Len(unread_messages) :
                   /\ Reached(fault, mark_processed, i)
                   /\ Raises(fault, mark_processed, i)]

\* return count, or return 0 from the except clause
ProcessResult(acc) == IF acc.raised THEN 0 ELSE acc.count

\* box: the labels of every message; calls: calls made so far; always_marked:
\* every call so far had mark_processed = True; once, again: the ids
\* processor_func was invoked on in some call, and in more than one call;
\* the other fields describe the latest call (listed: listing it did not
\* fail; matched: the messages its filter matched when it started)
IdleProcess ==
  [box |-> [i \in Ids |-> {}], calls |-> 0, always_marked |-> TRUE,
   once |-> {}, again |-> {},
   mark_processed |-> TRUE, label_ids |-> None, listed |-> TRUE,
   fault |-> NoFault,
   matched |-> {}, unread_messages |-> <<>>, invoked |-> <<>>,
   completed |-> 0, result |-> 0]

ProcessUnreadMessages ==
  /\ prc.calls < MaxCalls
  /\ \E mark_processed \in BOOLEAN, label_ids \in ProcessFilters,
        listed \in BOOLEAN, fault \in Faults :
       LET unread_messages == GetUnreadMessages(prc.box, label_ids, listed)
           acc == ProcessLoop(prc.box, unread_messages, mark_processed, fault)
       IN /\ fault.at <= Len(unread_messages)
          /\ fault.kind \in {"mark_fail", "mark_raise"} => mark_processed
          /\ prc' = [box |-> acc.box, calls |-> prc.calls + 1,
                     always_marked |-> prc.always_marked /\ mark_processed,
                     once |-> prc.once \cup Range(acc.invoked),
                     again |-> prc.again
                                 \cup (prc.once \cap Range(acc.invoked)),
                     mark_processed |-> mark_processed,
                     label_ids |-> label_ids, listed |-> listed,
                     fault |-> fault,
                     matched |-> Matching(prc.box, UnreadQuery(label_ids)),
                     unread_messages |-> unread_messages,
                     invoked |-> acc.invoked, completed |-> acc.completed,
                     result |-> ProcessResult(acc)]
  /\ UNCHANGED <<lst, labels, last, prev, cmp, fs, cnt, adr, qry, bdy>>

(***************************************************************************)
(* Counting: count_messages.                                               *)
(***************************************************************************)

\* largest resultSizeEstimate the mail store reports
MaxEstimate == 3

\* query: str = None
CountQueries == {None, Some("is:unread"), Some("from:a@b")}

\* list(userId=user_id, q=query, labelIds=label_ids, maxResults=1): no
\* pageToken is ever passed
CountRequest(query, label_ids) ==
  [api |-> "list", q |-> query, labelIds |-> label_ids, maxResults |-> 1,
   pageToken |-> None]

\* the responses the mail store may give to a list request: an estimate of
\* the total (a field it may leave out), no more messages than the request
\* allows, and a cursor when there are more
ListResponses(request) ==
  {[resultSizeEstimate |-> e, messages |-> m, nextPageToken |-> t] :
     e \in {None} \cup {Some(n) : n \in 0..MaxEstimate},
     m \in {q \in SeqsUpTo({"m1"}, request.maxResults) : TRUE},
     t \in {None, Some("t1")}}

\* result.get('resultSizeEstimate', 0)
EstimateOfListed(result) == Len(result.messages)
EstimateOf(result) ==
  IF result.resultSizeEstimate = None THEN 0
  ELSE result.resultSizeEstimate[1]

IdleCount ==
  [pc |-> "idle", query |-> None, label_ids |-> None, requests |-> <<>>,
   response |-> None, result |-> 0, outcome |-> "returned"]

\* svc: the service could be obtained (before the try block); net: the
\* request succeeded
CountMessages ==
  /\ cnt.pc = "idle"
  /\ \E query \in CountQueries, label_ids \in OptLists,
        svc \in BOOLEAN, net \in BOOLEAN :
       LET request == CountRequest(query, label_ids)
           frame == [IdleCount EXCEPT !.pc = "done", !.query = query,
                                      !.label_ids = label_ids]
       IN IF ~svc THEN cnt' = [frame EXCEPT !.outcome = "raised"]
          ELSE IF ~net THEN cnt' = [frame EXCEPT !.requests = <<request>>]
          ELSE \E response \in ListResponses(request) :
                 cnt' = [frame EXCEPT !.requests = <<request>>,
                                      !.response = Some(response),
                                      !.result = EstimateOf(response)]
  /\ UNCHANGED <<lst, labels, last, prev, cmp, fs, prc, adr, qry, bdy>>

CountReturn ==
  /\ cnt.pc = "done"
  /\ cnt' = IdleCount
  /\ UNCHANGED <<lst, labels, last, prev, cmp, fs, prc, adr, qry, bdy>>

(***************************************************************************)
(* Address parsing: extract_email_address, get_message_sender_info and     *)
(* get_message_recipients_info.                                            *)
(***************************************************************************)

\* longest header value drawn from the alphabet
MaxHeaderLen == 4

\* the double quote
QUOTE == "\""

\* the characters the pattern tells apart, and one ordinary character
HeaderChars == {"a", "@", " ", "<", ">", QUOTE, ","}

\* header values of the documentation and of mail in the wild
NotAnEmail ==
  <<"n", "o", "t", "-", "a", "n", "-", "e", "m", "a", "i", "l">>
TwoAddresses ==
  <<"a", "@", "b", ".", "c", "o", "m", ",", " ",
    "c", "@", "d", ".", "c", "o", "m">>
NamedAddress == <<"J", "o", " ", "D", " ", "<", "j", "@", "x", ">">>
TwoSpaces == <<"J", "o", " ", " ", "<", "j", "@", "x", ">">>
NamedThenBare ==
  <<QUOTE, "J", QUOTE, " ", "<", "j", "@", "x", ">", ",", "c", "@", "d">>

\* the header values the tools are applied to
HeaderValues ==
  SeqsUpTo(HeaderChars, MaxHeaderLen)
    \cup {NotAnEmail, TwoAddresses, NamedAddress, TwoSpaces, NamedThenBare}

\* \s
IsSpace(c) == c = " "

\* the length of the longest run of characters outside stop from position p
RECURSIVE Run(_, _, _)
Run(s, p, stop) ==
  IF p > Len(s) \/ s[p] \in stop THEN 0 ELSE 1 + Run(s, p + 1, stop)

\* (.+?@[^>,]+) from position start: the '@' is the first one that has a
\* character before it and a character other than '>' and ',' after it; the
\* group runs on to the next '>' or ',' or to the end
EmailFrom(s, start) ==
  LET ats == {at \in (start + 1)..(Len(s) - 1) :
                s[at] = "@" /\ s[at + 1] \notin {">", ","}}
  IN IF ats = {} THEN None
     ELSE LET at == CHOOSE a \in ats : \A b \in ats : a <= b
          IN Some(SubSeq(s, start, at + Run(s, at + 1, {">", ","})))

\* (?:<?(.+?@[^>,]+)>?) from position pos: a leading '<' is left out of the
\* group when the group can still match behind it
AddressAt(s, pos) ==
  IF pos <= Len(s) /\ s[pos] = "<" /\ EmailFrom(s, pos + 1) # None
  THEN EmailFrom(s, pos + 1)
  ELSE EmailFrom(s, pos)

\* the ways (?:"?([^"]*)"?\s)? can match so that the address part matches
\* behind it: q1, an opening quote is taken; L, the length of the name
\* group; q2, a closing quote is taken; then one whitespace character
NameMatches(s) ==
  {c \in [q1 : 0..1, L : 0..Len(s), q2 : 0..1] :
     LET p2 == 1 + c.q1 + c.L
         p3 == p2 + c.q2
     IN /\ c.q1 = 1 => s[1] = QUOTE
        /\ c.L <= Run(s, 1 + c.q1, {QUOTE})
        /\ c.q2 = 1 => (p2 <= Len(s) /\ s[p2] = QUOTE)
        /\ p3 <= Len(s)
        /\ IsSpace(s[p3])
        /\ AddressAt(s, p3 + 1) # None}

\* the order in which the matcher tries them: every quantifier is greedy
TriedBefore(c, d) ==
  \/ c.q1 > d.q1
  \/ c.q1 = d.q1 /\ c.L > d.L
  \/ c.q1 = d.q1 /\ c.L = d.L /\ c.q2 > d.q2

\* x if x else None
OrNone(text) == IF text = <<>> THEN None ELSE Some(text)

\* extract_email_address(header_value): the pair (name, email)
ExtractEmailAddress(header_value) ==
  IF header_value = <<>> THEN [name |-> None, email |-> None]
  ELSE LET s == header_value
           found == NameMatches(s)
       IN IF found # {}
          THEN LET c == CHOOSE x \in found :
                          \A y \in found : x = y \/ TriedBefore(x, y)
                   p2 == 1 + c.q1 + c.L
               IN [name |-> OrNone(SubSeq(s, 1 + c.q1, p2 - 1)),
                   email |-> AddressAt(s, p2 + c.q2 + 1)]
          ELSE [name |-> None, email |-> AddressAt(s, 1)]

\* addr.strip()
RECURSIVE Strip(_)
Strip(s) ==
  IF s = <<>> THEN s
  ELSE IF IsSpace(Head(s)) THEN Strip(Tail(s))
  ELSE IF IsSpace(s[Len(s)]) THEN Strip(SubSeq(s, 1, Len(s) - 1))
  ELSE s

\* headers[field].split(',')
RECURSIVE Split(_)
Split(s) ==
  LET cut == Run(s, 1, {","})
  IN IF cut = Len(s) THEN <<s>>
     ELSE <<SubSeq(s, 1, cut)>> \o Split(SubSeq(s, cut + 2, Len(s)))

\* if email: an entry is kept only when an email was found
KeepEntryAlways(parsed) == TRUE
KeepEntry(parsed) == parsed.email # None

\* every entry of a recipients header with what was extracted from it
ParsedEntries(value) ==
  LET addresses == Split(value)
  IN [i \in 1..Len(addresses) |->
        LET addr == Strip(addresses[i])
            pair == ExtractEmailAddress(addr)
        IN [addr |-> addr, name |-> pair.name, email |-> pair.email]]

\* result[field.lower()]: {"name": name, "email": email} for every entry kept
RecipientsOf(value) ==
  LET kept == SelectSeq(ParsedEntries(value), KeepEntry)
  IN [i \in 1..Len(kept) |-> [name |-> kept[i].name, email |-> kept[i].email]]

\* header: the value of the header in the message; pc: input, or done when
\* a tool has been applied; given: the text the tool read from the header;
\* name, email: the pair returned; addresses: the list returned for a
\* recipients field
IdleAddress ==
  [pc |-> "input", tool |-> "none", header |-> <<>>, given |-> <<>>,
   name |-> None, email |-> None, addresses |-> <<>>]

ExtractCall ==
  /\ adr.pc = "input"
  /\ LET pair == ExtractEmailAddress(adr.header)
     IN adr' = [adr EXCEPT !.pc = "done", !.tool = "extract_email_address",
                           !.given = adr.header,
                           !.name = pair.name, !.email = pair.email]
  /\ UNCHANGED <<lst, labels, last, prev, cmp, fs, prc, cnt, qry, bdy>>

\* fetched: get_message_headers returned the From header; otherwise
\* headers.get("From", "") is the empty text
GetMessageSenderInfo ==
  /\ adr.pc = "input"
  /\ \E fetched \in BOOLEAN :
       LET from_header == IF fetched THEN adr.header ELSE <<>>
           pair == ExtractEmailAddress(from_header)
       IN adr' = [adr EXCEPT !.pc = "done",
                             !.tool = "get_message_sender_info",
                             !.given = from_header,
                             !.name = pair.name, !.email = pair.email]
  /\ UNCHANGED <<lst, labels, last, prev, cmp, fs, prc, cnt, qry, bdy>>

\* one recipients field (To, Cc and Bcc are treated alike); fetched: the
\* field is in headers, otherwise its list stays empty
GetMessageRecipientsInfo ==
  /\ adr.pc = "input"
  /\ \E fetched \in BOOLEAN :
       adr' = [adr EXCEPT !.pc = "done",
                          !.tool = "get_message_recipients_info",
                          !.given = IF fetched THEN adr.header ELSE <<>>,
                          !.addresses = IF fetched THEN RecipientsOf(adr.header)
                                        ELSE <<>>]
  /\ UNCHANGED <<lst, labels, last, prev, cmp, fs, prc, cnt, qry, bdy>>

(***************************************************************************)
(* Query building: find_messages_by_date_range and get_unread_messages.    *)
(* A query is a text: a sequence of characters, in which a fixed word of   *)
(* the code ("after:", "label:", ...) and a label id each count as one.    *)
(***************************************************************************)

\* longest label_ids list a query is built from
MaxLabelIds == 2

\* the dates the tools are called with: years of three and of four digits,
\* the first and the last month, the first and the last day
Dates ==
  {[year |-> y, month |-> m, day |-> d] :
     y \in {999, 2023}, m \in {1, 12}, d \in {1, 31}}

\* label_ids: List[str] = None
LabelIdLists == SeqsUpTo(Labels, MaxLabelIds)
OptLabelIdLists == {None} \cup {Some(l) : l \in LabelIdLists}

\* the decimal digits of a natural number
DigitChar(d) == <<"0", "1", "2", "3", "4", "5", "6", "7", "8", "9">>[d + 1]

RECURSIVE Digits(_)
Digits(n) ==
  IF n < 10 THEN <<DigitChar(n)>>
  ELSE Append(Digits(n \div 10), DigitChar(n % 10))

\* zeros in front, up to the width
RECURSIVE ZeroPad(_, _)
ZeroPad(text, width) ==
  IF Len(text) >= width THEN text ELSE ZeroPad(<<"0">> \o text, width)

\* date.strftime('%Y/%m/%d'): %m and %d have two digits; whether %Y pads a
\* year below 1000 to four digits depends on the platform's C library
Strftime(date, pads_year) ==
  (IF pads_year THEN ZeroPad(Digits(date.year), 4) ELSE Digits(date.year))
    \o <<"/">> \o ZeroPad(Digits(date.month), 2)
    \o <<"/">> \o ZeroPad(Digits(date.day), 2)

\* " ".join(f"label:{label}" for label in label_ids)
RECURSIVE LabelQueryUnspaced(_)
LabelQueryUnspaced(label_ids) ==
  IF label_ids = <<>> THEN <<>>
  ELSE <<"label:", Head(label_ids)>> \o LabelQueryUnspaced(Tail(label_ids))

RECURSIVE LabelQuery(_)
LabelQuery(label_ids) ==
  IF label_ids = <<>> THEN <<>>
  ELSE IF Len(label_ids) = 1 THEN <<"label:", Head(label_ids)>>
  ELSE <<"label:", Head(label_ids), " ">> \o LabelQuery(Tail(label_ids))

\* if label_ids: query += f" {label_query}"
WithLabels(query, label_ids) ==
  IF label_ids # None /\ label_ids[1] # <<>>
  THEN query \o <<" ">> \o LabelQuery(label_ids[1])
  ELSE query

\* find_messages_by_date_range:
\* query = f"after:{start_str} before:{end_str}", then the labels
DateRangeQuery(start_date, end_date, label_ids, pads_year) ==
  WithLabels(<<"after:">> \o Strftime(start_date, pads_year)
               \o <<" ", "before:">> \o Strftime(end_date, pads_year),
             label_ids)

\* get_unread_messages: query = "is:unread", then the labels
UnreadQueryText(label_ids) == WithLabels(<<"is:unread">>, label_ids)

IdleQuery ==
  [pc |-> "idle", tool |-> "none",
   start_date |-> [year |-> 2023, month |-> 1, day |-> 1],
   end_date |-> [year |-> 2023, month |-> 1, day |-> 1],
   label_ids |-> None, query |-> <<>>]

\* the query handed to list_messages(user_id, query, max_results)
FindMessagesByDateRange ==
  /\ qry.pc = "idle"
  /\ \E start_date \in Dates, end_date \in Dates,
        label_ids \in OptLabelIdLists, pads_year \in BOOLEAN :
       qry' = [pc |-> "done", tool |-> "find_messages_by_date_range",
               start_date |-> start_date, end_date |-> end_date,
               label_ids |-> label_ids,
               query |-> DateRangeQuery(start_date, end_date, label_ids,
                                        pads_year)]
  /\ UNCHANGED <<lst, labels, last, prev, cmp, fs, prc, cnt, adr, bdy>>

GetUnreadMessagesQuery ==
  /\ qry.pc = "idle"
  /\ \E label_ids \in OptLabelIdLists :
       qry' = [IdleQuery EXCEPT !.pc = "done", !.tool = "get_unread_messages",
                                !.label_ids = label_ids,
                                !.query = UnreadQueryText(label_ids)]
  /\ UNCHANGED <<lst, labels, last, prev, cmp, fs, prc, cnt, adr, bdy>>

\* the query has gone to list_messages; the next one is built afresh
QueryReturn ==
  /\ qry.pc = "done"
  /\ qry' = IdleQuery
  /\ UNCHANGED <<lst, labels, last, prev, cmp, fs, prc, cnt, adr, bdy>>

(***************************************************************************)
(* Reading a body: get_message_body.                                       *)
(***************************************************************************)

\* the digit a character code stands for in a base-64 alphabet, -1 for a
\* character outside it
B64Value(c, urlsafe) ==
  IF c >= 65 /\ c <= 90 THEN c - 65
  ELSE IF c >= 97 /\ c <= 122 THEN c - 71
  ELSE IF c >= 48 /\ c <= 57 THEN c + 4
  ELSE IF c = (IF urlsafe THEN 45 ELSE 43) THEN 62
  ELSE IF c = (IF urlsafe THEN 95 ELSE 47) THEN 63
  ELSE -1

RECURSIVE B64Groups(_, _)
B64Groups(chars, urlsafe) ==
  IF chars = <<>> THEN <<>>
  ELSE LET v1 == B64Value(chars[1], urlsafe)
           v2 == B64Value(chars[2], urlsafe)
           v3 == B64Value(chars[3], urlsafe)
           v4 == B64Value(chars[4], urlsafe)
           rest == SubSeq(chars, 5, Len(chars))
       IN IF chars[3] = 61 THEN <<(v1 * 4 + v2 \div 16) % 256>>
          ELSE IF chars[4] = 61
          THEN LET n == v1 * 4096 + v2 * 64 + v3
               IN <<n \div 1024, (n \div 4) % 256>>
          ELSE LET n == v1 * 262144 + v2 * 4096 + v3 * 64 + v4
               IN <<n \div 65536, (n \div 256) % 256, n % 256>>
                    \o B64Groups(rest, urlsafe)

\* well formed: whole groups of digits, '=' only at the end of the last
WellFormedB64(chars, urlsafe) ==
  /\ Len(chars) % 4 = 0
  /\ \A i \in 1..Len(chars) :
       \/ B64Value(chars[i], urlsafe) >= 0
       \/ /\ chars[i] = 61
          /\ i >= Len(chars) - 1
          /\ (i = Len(chars) - 1 => chars[Len(chars)] = 61)

\* base64.urlsafe_b64decode / b64decode
B64Decode(chars, urlsafe) ==
  IF WellFormedB64(chars, urlsafe)
  THEN [ok |-> TRUE, bytes |-> B64Groups(chars, urlsafe)]
  ELSE [ok |-> FALSE, bytes |-> <<>>]

\* most parts a fetched message has
MaxParts == 3

\* the characters CharCode knows
TextChars == {"LF", "CR", ">", "@", "N", "a", "b", "e", "n", "o"}

\* bytes.decode(): the text of the bytes
Utf8Decode(bytes) ==
  [i \in 1..Len(bytes) |-> CHOOSE c \in TextChars : CharCode(c) = bytes[i]]

\* the mimeType values of the parts of a fetched message
MimeTypes == {"text/plain", "text/html", "application/pdf"}

\* the text the mail store holds for the part at a position: no two parts
\* of a message have the same text
ContentAt(i) == <<<<"a", "b", "e", "n", "o">>[i]>>

\* body.data as the mail store serves it: the URL-safe base-64 of the text
ServedData(text) == UrlsafeB64Encode(Utf8(text))

\* payload.parts of a fetched message: every part has a mimeType and may
\* have body data
PartLists ==
  {[i \in 1..Len(q) |->
      [mimeType |-> q[i][1],
       data |-> IF q[i][2] THEN Some(ServedData(ContentAt(i))) ELSE None]] :
     q \in SeqsUpTo(MimeTypes \X BOOLEAN, MaxParts)}

\* base64.urlsafe_b64decode(body_data.encode('UTF-8')).decode()
DecodeBody(body_data) == Utf8Decode(B64Decode(body_data, TRUE).bytes)

\* the first loop over the parts: a part without data is passed over; the
\* first part that is text/html (if prefer_html) or text/plain is returned
RECURSIVE PreferredBody(_, _)
PreferredBody(parts, prefer_html) ==
  IF parts = <<>> THEN None
  ELSE LET part == Head(parts)
       IN IF part.data = None THEN PreferredBody(Tail(parts), prefer_html)
          ELSE IF prefer_html /\ part.mimeType = "text/html"
          THEN Some(DecodeBody(part.data[1]))
          ELSE IF part.mimeType = "text/plain"
          THEN Some(DecodeBody(part.data[1]))
          ELSE PreferredBody(Tail(parts), prefer_html)

\* the fallback loop: the first part with data, whatever its type
RECURSIVE FallbackBody(_)
FallbackBody(parts) ==
  IF parts = <<>> THEN None
  ELSE IF Head(parts).data # None THEN Some(DecodeBody(Head(parts).data[1]))
  ELSE FallbackBody(Tail(parts))

\* the try block once the message is fetched: a message without parts
\* gives its own body data, a multipart message the preferred part or else
\* the fallback
BodyOf(parts, body_data, prefer_html) ==
  IF parts = <<>>
  THEN (IF body_data # None THEN Some(DecodeBody(body_data[1])) ELSE None)
  ELSE IF PreferredBody(parts, prefer_html) # None
  THEN PreferredBody(parts, prefer_html)
  ELSE FallbackBody(parts)

IdleBody ==
  [pc |-> "idle", prefer_html |-> FALSE, fetched |-> FALSE, parts |-> <<>>,
   body_data |-> None, result |-> None]

\* fetched: get_message gave the message; otherwise it returned None or
\* raised inside the try block, and None is returned
GetMessageBody ==
  /\ bdy.pc = "idle"
  /\ \E prefer_html \in BOOLEAN, fetched \in BOOLEAN, parts \in PartLists,
        body_data \in {None, Some(ServedData(ContentAt(1)))} :
       bdy' = [pc |-> "done", prefer_html |-> prefer_html,
               fetched |-> fetched, parts |-> parts, body_data |-> body_data,
               result |-> IF fetched
                          THEN BodyOf(parts, body_data, prefer_html)
                          ELSE None]
  /\ UNCHANGED <<lst, labels, last, prev, cmp, fs, prc, cnt, adr, qry>>

BodyReturn ==
  /\ bdy.pc = "done"
  /\ bdy' = IdleBody
  /\ UNCHANGED <<lst, labels, last, prev, cmp, fs, prc, cnt, adr, qry>>

(***************************************************************************)
(* The specifications: one per group of tools, each from the state after   *)
(* start-up.  The mail store may hold any label sets when the server       *)
(* starts.                                                                 *)
(***************************************************************************)

NoFiles == [p \in Paths |-> "missing"]

InitList ==
  /\ lst = IdleList
  /\ labels = NoLabels
  /\ last = NoCall
  /\ prev = NoCall
  /\ cmp = IdleCompose
  /\ fs = NoFiles
  /\ prc = IdleProcess
  /\ cnt = IdleCount
  /\ adr = IdleAddress
  /\ qry = IdleQuery
  /\ bdy = IdleBody

NextList == ListCall \/ ListPage \/ ListPageFail \/ ListDone

SpecList == InitList /\ [][NextList]_vars

\* the while loop is straight-line code: once a call is in the loop, its
\* next request.execute() returns or raises
FairList == WF_vars(ListPage \/ ListPageFail)

SpecListFair == InitList /\ [][NextList]_vars /\ FairList

InitLabels ==
  /\ labels \in [Msgs -> SUBSET Labels]
  /\ last = NoCall
  /\ prev = NoCall
  /\ lst = IdleList
  /\ cmp = IdleCompose
  /\ fs = NoFiles
  /\ prc = IdleProcess
  /\ cnt = IdleCount
  /\ adr = IdleAddress
  /\ qry = IdleQuery
  /\ bdy = IdleBody

NextLabels ==
  \/ ModifyMessage
  \/ MarkAsRead
  \/ MarkAsUnread
  \/ StarMessage
  \/ UnstarMessage
  \/ MoveMessageToLabel
  \/ BatchModifyMessages
  \/ RepeatCall
  \/ LabelReturn

SpecLabels == InitLabels /\ [][NextLabels]_vars

InitCompose ==
  /\ cmp = IdleCompose
  /\ fs = NoFiles
  /\ lst = IdleList
  /\ labels = NoLabels
  /\ last = NoCall
  /\ prev = NoCall
  /\ prc = IdleProcess
  /\ cnt = IdleCount
  /\ adr = IdleAddress
  /\ qry = IdleQuery
  /\ bdy = IdleBody

NextCompose ==
  ComposeMessage \/ ComposeWithAttachment \/ ComposeReturn \/ FileChange

SpecCompose == InitCompose /\ [][NextCompose]_vars

InitSend ==
  /\ cmp = IdleCompose
  /\ fs = NoFiles
  /\ lst = IdleList
  /\ labels = NoLabels
  /\ last = NoCall
  /\ prev = NoCall
  /\ prc = IdleProcess
  /\ cnt = IdleCount
  /\ adr = IdleAddress
  /\ qry = IdleQuery
  /\ bdy = IdleBody

NextSend ==
  \/ ComposeMessage
  \/ ComposeWithAttachment
  \/ SendMessage
  \/ SendMessageWithAttachment
  \/ CreateDraft
  \/ CreateDraftWithAttachment
  \/ ComposeReturn
  \/ FileChange

SpecSend == InitSend /\ [][NextSend]_vars

\* the mailbox when the server starts: a backlog of unread messages, all
\* of them or the first half of them in the inbox
InitProcess ==
  /\ \E n \in Backlogs, inbox \in BOOLEAN :
       prc = [IdleProcess EXCEPT
                !.box = [i \in Ids |->
                           IF i > n THEN {}
                           ELSE IF inbox \/ 2 * i <= n
                           THEN {LABEL_UNREAD, LABEL_INBOX}
                           ELSE {LABEL_UNREAD}]]
  /\ cnt = IdleCount
  /\ adr = IdleAddress
  /\ cmp = IdleCompose
  /\ fs = NoFiles
  /\ lst = IdleList
  /\ labels = NoLabels
  /\ last = NoCall
  /\ prev = NoCall
  /\ qry = IdleQuery
  /\ bdy = IdleBody

NextProcess == ProcessUnreadMessages

SpecProcess == InitProcess /\ [][NextProcess]_vars

InitCount ==
  /\ cnt = IdleCount
  /\ prc = IdleProcess
  /\ adr = IdleAddress
  /\ cmp = IdleCompose
  /\ fs = NoFiles
  /\ lst = IdleList
  /\ labels = NoLabels
  /\ last = NoCall
  /\ prev = NoCall
  /\ qry = IdleQuery
  /\ bdy = IdleBody

NextCount == CountMessages \/ CountReturn

SpecCount == InitCount /\ [][NextCount]_vars

InitAddress ==
  /\ \E h \in HeaderValues : adr = [IdleAddress EXCEPT !.header = h]
  /\ cnt = IdleCount
  /\ prc = IdleProcess
  /\ cmp = IdleCompose
  /\ fs = NoFiles
  /\ lst = IdleList
  /\ labels = NoLabels
  /\ last = NoCall
  /\ prev = NoCall
  /\ qry = IdleQuery
  /\ bdy = IdleBody

NextAddress ==
  ExtractCall \/ GetMessageSenderInfo \/ GetMessageRecipientsInfo

SpecAddress == InitAddress /\ [][NextAddress]_vars

InitQuery ==
  /\ qry = IdleQuery
  /\ bdy = IdleBody
  /\ adr = IdleAddress
  /\ cnt = IdleCount
  /\ prc = IdleProcess
  /\ cmp = IdleCompose
  /\ fs = NoFiles
  /\ lst = IdleList
  /\ labels = NoLabels
  /\ last = NoCall
  /\ prev = NoCall

NextQuery == FindMessagesByDateRange \/ GetUnreadMessagesQuery \/ QueryReturn

SpecQuery == InitQuery /\ [][NextQuery]_vars

InitBody ==
  /\ bdy = IdleBody
  /\ qry = IdleQuery
  /\ adr = IdleAddress
  /\ cnt = IdleCount
  /\ prc = IdleProcess
  /\ cmp = IdleCompose
  /\ fs = NoFiles
  /\ lst = IdleList
  /\ labels = NoLabels
  /\ last = NoCall
  /\ prev = NoCall

NextBody == GetMessageBody \/ BodyReturn

SpecBody == InitBody /\ [][NextBody]_vars

(***************************************************************************)
(* Claims about composition.                                               *)
(***************************************************************************)

GivenPaths == NormalizePaths(cmp.file_paths)
IsMissing(path) == fs[path] = "missing"
IsPresent(path) == fs[path] # "missing"

\* C10: paths that do not exist are skipped without failing the composition.
\* Whenever create_message_with_attachment returns a message, its attachment
\* parts are exactly the existing paths, one part per path, in input order;
\* and it does return a message whenever every existing path of the input
\* can be read and the other arguments can be encoded, however many of the
\* paths do not exist.
C10_MissingSkipped ==
  cmp.pc = "done"
    => /\ cmp.result # None =>
            LET parts == cmp.result[1].parts
                present == SelectSeq(GivenPaths, IsPresent)
            IN /\ Len(parts) = Len(present)
               /\ \A i \in 1..Len(parts) :
                    /\ parts[i].filename = Basename(present[i])
                    /\ parts[i].data = FileData(present[i])
       /\ (/\ ~BodyRaises(cmp.body_)
           /\ ~HeaderRaises(cmp.to_) /\ ~HeaderRaises(cmp.from_)
           /\ ~HeaderRaises(cmp.subject_)
           /\ cmp.file_paths.kind # "none"
           /\ \A i \in 1..Len(GivenPaths) : fs[GivenPaths[i]] # "unreadable")
            => cmp.result # None

\* one valid and one nonexistent path, the nonexistent one first: exactly
\* one attachment part
C10_Witness ==
  /\ cmp.pc = "done"
  /\ cmp.result # None
  /\ Len(GivenPaths) = 2
  /\ IsMissing(GivenPaths[1])
  /\ fs[GivenPaths[2]] = "readable"
  /\ Len(cmp.result[1].parts) = 1
  /\ cmp.result[1].parts[1].filename = Basename(GivenPaths[2])

IsReadable(path) == fs[path] = "readable"

ArgumentsEncode ==
  /\ ~BodyRaises(cmp.body_)
  /\ ~HeaderRaises(cmp.to_) /\ ~HeaderRaises(cmp.from_)
  /\ ~HeaderRaises(cmp.subject_)
  /\ cmp.file_paths.kind # "none"

\* C11: when a referenced file exists but cannot be read,
\* create_message_with_attachment skips it and still returns a message
\* holding the remaining (readable) attachments; an unreadable file never
\* makes the composition fail.
C11_UnreadableSkipped ==
  (cmp.pc = "done" /\ ArgumentsEncode)
    => /\ cmp.result # None
       /\ Len(cmp.result[1].parts) = Len(SelectSeq(GivenPaths, IsReadable))

(***************************************************************************)
(* Reading a raw value back: URL-safe base-64 decoding, then parsing.      *)
(***************************************************************************)

\* the index of the first b in bytes, one past the end when there is none
IndexOf(bytes, b) ==
  IF \E i \in 1..Len(bytes) : bytes[i] = b
  THEN CHOOSE i \in 1..Len(bytes) :
         /\ bytes[i] = b
         /\ \A j \in 1..(i - 1) : bytes[j] # b
  ELSE Len(bytes) + 1

TakeUntil(bytes, b) == SubSeq(bytes, 1, IndexOf(bytes, b) - 1)
DropThrough(bytes, b) == SubSeq(bytes, IndexOf(bytes, b) + 1, Len(bytes))

RECURSIVE ParseParts(_)
ParseParts(bytes) ==
  IF bytes = <<>> THEN <<>>
  ELSE LET part == TakeUntil(bytes, 0)
           r1 == DropThrough(part, 10)
           r2 == DropThrough(r1, 10)
           payload == B64Decode(DropThrough(r2, 10), FALSE)
       IN <<[filename |-> TakeUntil(part, 10), maintype |-> TakeUntil(r1, 10),
             subtype |-> TakeUntil(r2, 10), ok |-> payload.ok,
             data |-> payload.bytes]>>
            \o ParseParts(DropThrough(bytes, 0))

ParseMessage(bytes) ==
  LET r1 == DropThrough(bytes, 10)
      r2 == DropThrough(r1, 10)
      r3 == DropThrough(r2, 10)
      content == DropThrough(r3, 10)
  IN [to |-> Tail(TakeUntil(bytes, 10)), from |-> Tail(TakeUntil(r1, 10)),
      subject |-> Tail(TakeUntil(r2, 10)), body |-> TakeUntil(content, 0),
      parts |-> ParseParts(DropThrough(content, 0))]

\* a composing tool has returned an encoded message for arguments that
\* were all given
ComposedFromGiven ==
  /\ cmp.pc = "done"
  /\ cmp.tool \in {"create_message", "create_message_with_attachment"}
  /\ cmp.result # None
  /\ cmp.to_ # None /\ cmp.from_ # None /\ cmp.subject_ # None

DecodedRaw == B64Decode(cmp.result[1].raw, TRUE)
Decoded == ParseMessage(DecodedRaw.bytes)

\* the headers and the attachments read back are those put in
HeadersAndPayloadsRoundTrip ==
  /\ DecodedRaw.ok
  /\ Decoded.to = Utf8(cmp.to_[1])
  /\ Decoded.from = Utf8(cmp.from_[1])
  /\ Decoded.subject = Utf8(cmp.subject_[1])
  /\ LET files == SelectSeq(GivenPaths, IsReadable)
     IN /\ Len(Decoded.parts) = Len(files)
        /\ \A i \in 1..Len(files) :
             /\ Decoded.parts[i].ok
             /\ Decoded.parts[i].data = FileData(files[i])
             /\ Decoded.parts[i].filename = TokenBytes(Basename(files[i]))

SendTools ==
  {"send_message", "send_message_with_attachment",
   "create_draft", "create_draft_with_attachment"}

ConstructionFailed == cmp.pc = "done" /\ cmp.built /\ cmp.result = None

\* C13: when message construction fails, the composing tool returns None
\* instead of raising, and a send or draft tool then returns None without
\* handing any request to the transport.
C13_FailureIsNone ==
  ConstructionFailed
    => /\ cmp.outcome = "returned"
       /\ cmp.response = None
       /\ cmp.sent = <<>>

\* a draft with an attachment that cannot be read: the service was there,
\* nothing was built, nothing was requested
C13_Witness ==
  /\ ConstructionFailed
  /\ cmp.tool = "create_draft_with_attachment"
  /\ ~BodyRaises(cmp.body_)
  /\ \E i \in 1..Len(GivenPaths) : fs[GivenPaths[i]] = "unreadable"
  /\ cmp.sent = <<>>

\* an argument that is absent or empty
Missing(value) == value = None \/ value = Some(<<>>)

\* C14: if the body or any of To, From and Subject is absent or empty, the
\* composing tools return no encoded message, and no such message is handed
\* to the transport by a send or draft tool.
C14_MissingFails ==
  (/\ cmp.pc = "done"
   /\ \/ Missing(cmp.body_) \/ Missing(cmp.to_)
      \/ Missing(cmp.from_) \/ Missing(cmp.subject_))
    => /\ cmp.result = None
       /\ cmp.sent = <<>>

(***************************************************************************)
(* Claims about processing the unread messages.                            *)
(***************************************************************************)

\* the position of an id in a listing
PositionIn(listing, id) == CHOOSE i \in 1..Len(listing) : listing[i] = id

\* C15: over any sequence of process_unread_messages calls with
\* mark_processed = True, processor_func is invoked at most once for each
\* message id, and within one call the invocations follow the listing order.
C15_AtMostOncePerMessage ==
  prc.always_marked
    => /\ prc.again = {}
       /\ \A i \in 1..(Len(prc.invoked) - 1) :
            PositionIn(prc.unread_messages, prc.invoked[i])
              < PositionIn(prc.unread_messages, prc.invoked[i + 1])

\* C16: after a call with mark_processed = True in which no step failed,
\* every message that matched the filter and was unread when the call
\* started has been passed to processor_func.
C16_ProcessesAllUnread ==
  (prc.calls > 0 /\ prc.mark_processed /\ prc.listed /\ prc.fault = NoFault)
    => prc.matched \subseteq Range(prc.invoked)

\* C17: the integer returned by process_unread_messages equals the number
\* of messages on which processor_func was invoked to completion during
\* that call, in every outcome.
C17_CountsCompleted ==
  prc.calls > 0 => prc.result = prc.completed

(***************************************************************************)
(* Claims about counting.                                                  *)
(***************************************************************************)

\* C18: every call of count_messages that returns has executed exactly one
\* list request, with page size 1 and no continuation cursor, and returns
\* the resultSizeEstimate of that response, 0 when the field is absent or
\* the request failed.
C18_OneMinimalRequest ==
  (cnt.pc = "done" /\ cnt.outcome = "returned")
    => /\ Len(cnt.requests) = 1
       /\ cnt.requests[1].maxResults = 1
       /\ cnt.requests[1].pageToken = None
       /\ cnt.result = IF cnt.response = None THEN 0
                       ELSE IF cnt.response[1].resultSizeEstimate = None
                       THEN 0
                       ELSE cnt.response[1].resultSizeEstimate[1]

\* the mail store reports more matches than the page holds and offers a
\* cursor; the estimate is returned and no second request is made
C18_Witness ==
  /\ cnt.pc = "done"
  /\ cnt.response # None
  /\ cnt.response[1].nextPageToken # None
  /\ cnt.response[1].resultSizeEstimate = Some(MaxEstimate)
  /\ Len(cnt.response[1].messages) = 1
  /\ cnt.result = MaxEstimate
  /\ Len(cnt.requests) = 1

(***************************************************************************)
(* Claims about address parsing.                                           *)
(***************************************************************************)

Contains(text, c) == \E i \in 1..Len(text) : text[i] = c

\* part occurs in whole as consecutive characters
OccursIn(part, whole) ==
  \E i \in 0..(Len(whole) - Len(part)) :
    SubSeq(whole, i + 1, i + Len(part)) = part

RecipientsListed ==
  adr.pc = "done" /\ adr.tool = "get_message_recipients_info"

\* C19: in get_message_recipients_info an entry without '@' yields no
\* address, an entry yields an address only with an email that contains '@'
\* and occurs in the entry, the list returned holds the addresses of the
\* entries in order, 'not-an-email' yields the empty list and
\* 'a@b.com, c@d.com' yields two addresses.
C19_NoFabricatedEmail ==
  RecipientsListed
    => LET parsed == ParsedEntries(adr.given)
           kept == SelectSeq(parsed, LAMBDA e : Contains(e.addr, "@")
                                                  /\ e.email # None)
       IN /\ \A i \in 1..Len(parsed) :
               /\ ~Contains(parsed[i].addr, "@") => parsed[i].email = None
               /\ parsed[i].email # None
                    => /\ Contains(parsed[i].email[1], "@")
                       /\ OccursIn(parsed[i].email[1], parsed[i].addr)
          /\ Len(adr.addresses) = Len(kept)
          /\ \A i \in 1..Len(kept) :
               /\ adr.addresses[i].email = kept[i].email
               /\ Contains(adr.addresses[i].email[1], "@")
          /\ adr.given = NotAnEmail => adr.addresses = <<>>
          /\ adr.given = TwoAddresses => Len(adr.addresses) = 2

\* 'a@b.com, c@d.com': two addresses, both without a name
C19_Witness ==
  /\ RecipientsListed
  /\ adr.given = TwoAddresses
  /\ Len(adr.addresses) = 2
  /\ adr.addresses[1].name = None /\ adr.addresses[2].name = None
  /\ adr.addresses[1].email # adr.addresses[2].email

\* neither the first nor the last character is whitespace
Trimmed(value) ==
  value # None
    => /\ value # Some(<<>>)
       /\ ~IsSpace(value[1][1])
       /\ ~IsSpace(value[1][Len(value[1])])

\* C20: the name returned by extract_email_address, get_message_sender_info
\* and get_message_recipients_info is None or a non-empty text, and the name
\* and the email returned carry no leading or trailing whitespace.
C20_TrimmedNameAndEmail ==
  adr.pc = "done"
    => /\ Trimmed(adr.name) /\ Trimmed(adr.email)
       /\ \A i \in 1..Len(adr.addresses) :
            Trimmed(adr.addresses[i].name) /\ Trimmed(adr.addresses[i].email)

(***************************************************************************)
(* Claims about query building.                                            *)
(***************************************************************************)

\* the clauses of a query: the texts between its spaces
RECURSIVE ClausesOf(_)
ClausesOf(query) ==
  LET cut == Run(query, 1, {" "})
  IN IF cut = Len(query) THEN <<query>>
     ELSE <<SubSeq(query, 1, cut)>>
            \o ClausesOf(SubSeq(query, cut + 2, Len(query)))

\* how many times x is in the sequence q
Occurrences(q, x) == Cardinality({i \in 1..Len(q) : q[i] = x})

\* YYYY/MM/DD
FixedDate(date) ==
  ZeroPad(Digits(date.year), 4) \o <<"/">> \o ZeroPad(Digits(date.month), 2)
    \o <<"/">> \o ZeroPad(Digits(date.day), 2)

RequestedLabels == IF qry.label_ids = None THEN <<>> ELSE qry.label_ids[1]

\* one 'label:<id>' clause for every entry of label_ids
LabelClausesOnce(clauses) ==
  \A l \in Labels :
    Occurrences(clauses, <<"label:", l>>) = Occurrences(RequestedLabels, l)

\* the query of find_messages_by_date_range, and that of get_unread_messages,
\* is made of exactly the clauses asked for
QueryAsAskedFor ==
  LET clauses == ClausesOf(qry.query)
  IN /\ qry.tool = "find_messages_by_date_range"
          => /\ Occurrences(clauses,
                            <<"after:">> \o FixedDate(qry.start_date)) = 1
             /\ Occurrences(clauses,
                            <<"before:">> \o FixedDate(qry.end_date)) = 1
             /\ LabelClausesOnce(clauses)
             /\ Len(clauses) = 2 + Len(RequestedLabels)
     /\ qry.tool = "get_unread_messages"
          => /\ clauses[1] = <<"is:unread">>
             /\ LabelClausesOnce(clauses)
             /\ Len(clauses) = 1 + Len(RequestedLabels)

\* C21 as stated: for every date range and all label ids, the query of
\* find_messages_by_date_range has one after:YYYY/MM/DD clause, one
\* before:YYYY/MM/DD clause and one label:<id> clause per requested label,
\* space-separated and nothing else; that of get_unread_messages has
\* is:unread followed by one label:<id> clause per requested label.
C21_QueryClauses == qry.pc = "done" => QueryAsAskedFor

\* the clauses are as asked for whenever both years have four digits
QueryClausesFourDigitYears ==
  (qry.pc = "done" /\ qry.start_date.year >= 1000
     /\ qry.end_date.year >= 1000)
    => QueryAsAskedFor

\* a date range with two labels: four clauses
QueryClausesReached ==
  /\ qry.pc = "done"
  /\ qry.tool = "find_messages_by_date_range"
  /\ qry.start_date.year >= 1000 /\ qry.end_date.year >= 1000
  /\ qry.start_date # qry.end_date
  /\ Len(RequestedLabels) = 2
  /\ RequestedLabels[1] # RequestedLabels[2]
  /\ Len(ClausesOf(qry.query)) = 4

(***************************************************************************)
(* Claims about reading a body.                                            *)
(***************************************************************************)

\* the texts of the parts of a type that have body data, in order
TextsOfType(mime_type) ==
  LET chosen == SelectSeq([i \in 1..Len(bdy.parts) |-> i],
                          LAMBDA i : /\ bdy.parts[i].mimeType = mime_type
                                     /\ bdy.parts[i].data # None)
  IN [k \in 1..Len(chosen) |-> ContentAt(chosen[k])]

\* C22: for a fetched multipart message with a text/plain part and a
\* text/html part that both have body data, get_message_body returns the
\* text of the text/html part when prefer_html is True, whatever the order
\* of the parts, and the text of the first text/plain part when it is False.
C22_PreferredPart ==
  (/\ bdy.pc = "done" /\ bdy.fetched
   /\ TextsOfType("text/plain") # <<>>
   /\ TextsOfType("text/html") # <<>>)
    => IF bdy.prefer_html
       THEN \E i \in 1..Len(TextsOfType("text/html")) :
              bdy.result = Some(TextsOfType("text/html")[i])
       ELSE bdy.result = Some(TextsOfType("text/plain")[1])

(***************************************************************************)
(* Claims about failures and termination of listing.                       *)
(***************************************************************************)

\* C23: every tool operation ends in an explicit success or failure value
\* and never lets an exception reach its caller, whatever fails outside the
\* repository, a failure of get_gmail_api_service included: a finished
\* listing call has returned a result or its failure value.
C23_NoExceptionEscapes ==
  lst.pc = "done" => lst.outcome \in {"returned", "failed"}

(***************************************************************************)
(* Claims about the order of processing and marking.                       *)
(***************************************************************************)

\* the step at position i of the latest listing went wrong in this way
FaultIs(kinds, i) == prc.fault.at = i /\ prc.fault.kind \in kinds

\* the message is unread once the call is over
StillUnread(id) == LABEL_UNREAD \in prc.box[id]

\* C24: with mark_processed = True a message of the listing is marked as
\* read only if processor_func was invoked on it and returned; a message
\* whose fetch fails is not processed, not counted and stays unread; and if
\* processor_func raises on a message, that message and every later one of
\* the listing stay unread.
C24_MarkedOnlyAfterProcessed ==
  (prc.calls > 0 /\ prc.mark_processed) =>
    /\ prc.result <= Len(prc.invoked)
    /\ \A i \in 1..Len(prc.unread_messages) :
         LET id == prc.unread_messages[i]
         IN /\ ~StillUnread(id) =>
                 /\ id \in Range(prc.invoked)
                 /\ ~FaultIs({"proc_raise"}, i)
            /\ FaultIs({"get_none", "get_raise"}, i) =>
                 /\ id \notin Range(prc.invoked)
                 /\ StillUnread(id)
            /\ (\E j \in 1..i : FaultIs({"proc_raise"}, j)) => StillUnread(id)

\* processor_func raised on the second of three listed messages: the first
\* was marked as read, the others stay unread
C24_Witness ==
  /\ prc.calls > 0 /\ prc.mark_processed
  /\ FaultIs({"proc_raise"}, 2)
  /\ Len(prc.unread_messages) >= 3
  /\ ~StillUnread(prc.unread_messages[1])
  /\ StillUnread(prc.unread_messages[2])
  /\ StillUnread(prc.unread_messages[3])

\* the fetch of the first listed message failed and the second was processed
C24_WitnessFetchFailed ==
  /\ prc.calls > 0 /\ prc.mark_processed
  /\ FaultIs({"get_none"}, 1)
  /\ Len(prc.unread_messages) = 2
  /\ prc.invoked = <<prc.unread_messages[2]>>
  /\ prc.result = 1

\* C25: if a page request of list_messages fails the call returns the empty
\* list, whatever earlier pages had delivered: a list that comes back is
\* empty or the complete prefix of the server's listing, never the items
\* accumulated up to an error.
C25_FailureDiscardsPages ==
  (lst.pc = "done" /\ lst.outcome \in {"returned", "failed"})
    => /\ lst.outcome = "failed" => lst.result = <<>>
       /\ \/ lst.result = <<>>
          \/ lst.result = SubSeq(AllItems(lst.chain), 1,
                                 Min(lst.max_results,
                                     TotalAvailable(lst.chain)))

\* a page request failed after earlier pages had delivered items
C25_Witness ==
  /\ lst.pc = "done"
  /\ lst.outcome = "failed"
  /\ lst.executed >= 2
  /\ Len(lst.messages) > 0
  /\ lst.result = <<>>

\* C26: list_messages terminates on every server whose cursor chain is
\* finite or whose pages come to hold max_results items: a call that is in
\* its loop comes to its end, and it never executes a page request after the
\* cursor was exhausted (no more requests than the chain has pages, none
\* without a cursor).
C26_Terminates ==
  /\ [](lst.executed <= Len(lst.chain))
  /\ [](lst.pc = "loop" => lst.request # 0)
  /\ (lst.pc = "loop") ~> (lst.pc = "done")

\* the call ended because the cursor was exhausted, after the last page of
\* the longest chain, short of max_results
C26_Witness ==
  /\ lst.pc = "done"
  /\ lst.outcome = "returned"
  /\ lst.request = 0
  /\ lst.executed = Len(lst.chain)
  /\ Len(lst.chain) = MaxPages
  /\ Len(lst.messages) < lst.max_results

\* the call ended on reaching max_results while the server still offered a
\* cursor: what the rest of the chain holds plays no part
C26_WitnessBreak ==
  /\ lst.pc = "done"
  /\ lst.outcome = "returned"
  /\ lst.request # 0
  /\ Len(lst.messages) = lst.max_results
  /\ lst.executed = 1
  /\ Len(lst.chain) = MaxPages

====
